---- MODULE Spec2Model ----
(***************************************************************************)
(* A model of light-monitor-kyiv (src/main.py): the provider normalizers,  *)
(* the period compressor, the reconciler, the change detector, the         *)
(* presenter and the run of main around them.                              *)
(*                                                                         *)
(* Representation:                                                         *)
(*   - a Python list is a sequence; Python index i is element i + 1;       *)
(*   - a Python dict is a function whose DOMAIN is its key set;            *)
(*   - None is Null (the empty tuple); the code never builds an empty list *)
(*     of slots and tests slots only by truthiness, so None and an empty   *)
(*     list are not told apart by it either;                               *)
(*   - a string that the code builds or takes apart character by character *)
(*     (a time "HH:MM", a decimal key) is a sequence of one-character      *)
(*     strings; every other string is a TLA+ string;                       *)
(*   - a float number of hours x, always a multiple of 0.5 here, is held   *)
(*     as the integer 2x (its number of half-hours).                       *)
(***************************************************************************)
EXTENDS Integers, Sequences, FiniteSets, TLC

VARIABLES
    pc,         \* position of the call or of the run
    slots,      \* slots_to_periods: its argument
    periods,    \* slots_to_periods: its return value
    hours_arg,  \* format_hours: its argument
    hours_text, \* format_hours: its return value
    day_data,   \* parse_yasno_day: its argument
    day_ret,    \* parse_yasno_day: its return value
    github_data,        \* main: what fetch_github_data returned
    yasno_data,         \* main: what fetch_yasno_data returned
    github_schedules,   \* main: the snapshot of the GitHub-style provider
    yasno_schedules,    \* main: the snapshot of the Yasno-style provider
    message,            \* main: what format_full_message returned
    new_cache,          \* main: the reduced snapshot of this run
    old_cache,          \* main: what load_cached_schedules returned
    message_id,         \* main: what send_telegram_message returned (None is 0)
    cache_file,         \* last_schedules.json: no file, or a file and its value
    ids_file,           \* message_ids.json: the stored list (no file is the empty list)
    next_id,            \* Telegram: the id the next message of the channel gets
    repeat,             \* history: this run fetched what the run before it fetched,
                        \*   and that run's send succeeded
    sent_schedules,     \* history: the two snapshots of the run that wrote cache_file
    retry,              \* history: this run fetched what the run before it fetched,
                        \*   and that run's send failed
    delivered,          \* history: the two snapshots of the last run whose send
                        \*   returned an id (Null before any)
    start_files,        \* history: the two files as this run found them
    max_messages,       \* CONFIG["telegram"]["max_messages"], loaded once
    requests            \* Telegram: the requests of the last manage_messages call,
                        \*   in their order, each with its outcome

periodVars == <<slots, periods>>
hoursVars == <<hours_arg, hours_text>>
dayVars == <<day_data, day_ret>>
fetchVars == <<github_data, yasno_data>>
snapshotVars == <<github_schedules, yasno_schedules>>
runVars == <<new_cache, old_cache, message_id>>
fileVars == <<cache_file, ids_file>>
historyVars == <<repeat, sent_schedules, retry, delivered, start_files>>
callVars == <<periodVars, hoursVars, dayVars>>
manageVars == <<max_messages, requests>>
progVars == <<fetchVars, snapshotVars, message, runVars, fileVars, next_id, historyVars,
             manageVars>>
vars == <<pc, callVars, progVars>>

Null == << >>

\* list[i] of Python, 0-based
At(list, i) == list[i + 1]

----------------------------------------------------------------------------
(* Bounds of the model *)

\* most changes of value inside a slot array drawn as an input
MaxToggles == 2

\* largest hour count given to format_hours, in half-hours
MaxHalfHours == 250

\* most intervals in a Yasno day drawn as an input of parse_yasno_day
MaxIntervals == 2

\* most day keys in a GitHub payload drawn as an input
MaxDays == 3

\* most messages the channel takes: the largest id Telegram gives
MaxMessageId == 4

\* most hours of a GitHub day drawn with a code of their own
MaxCodedHours == 1

\* most ids in a stored list drawn as an input of manage_messages, the largest
\* id in it, and the largest max_messages configured
MaxStored == 4
MaxStoredId == 3
MaxConfigured == 4

(* Program constants *)

\* slots of a day: [True] * 48, and 24 hours of 2 halves
NumSlots == 48

----------------------------------------------------------------------------
(* Time rendering *)

Digits == <<"0", "1", "2", "3", "4", "5", "6", "7", "8", "9">>

\* str(n) for n >= 0, one character per element
RECURSIVE Dec(_)
Dec(n) == IF n < 10 THEN <<Digits[n + 1]>> ELSE Dec(n \div 10) \o <<Digits[(n % 10) + 1]>>

\* f"{n:02d}" for n >= 0
Pad2(n) == IF n < 10 THEN <<"0">> \o Dec(n) ELSE Dec(n)

format_time(minutes) ==
    LET hours == minutes \div 60
        mins == minutes % 60
    IN  IF hours = 24 THEN <<"2", "4", ":", "0", "0">>
        ELSE Pad2(hours) \o <<":">> \o Pad2(mins)

format_slot_time_index_as_minutes(slot) == format_time(slot)

format_slot_time(slot) == format_time(slot * 30)

\* str(x) of the float x = h / 2
FloatStr(h) == Dec(h \div 2) \o <<".", IF h % 2 = 0 THEN "0" ELSE "5">>

\* The three forms of the word for "hour": "година", "години", "годин"
WordOne == "hodyna"
WordFew == "hodyny"
WordMany == "hodyn"

\* h is the argument in half-hours; the text is the number and the word after it
format_hours_few_missing_teens(h) ==
    IF h % 2 /= 0 THEN [num |-> FloatStr(h), word |-> WordFew]
    ELSE LET n == h \div 2
         IN  IF n % 10 = 1 /\ n % 100 /= 11 THEN [num |-> Dec(n), word |-> WordOne]
             ELSE IF n % 10 \in {2, 3, 4}
                  THEN [num |-> Dec(n), word |-> WordFew]
                  ELSE [num |-> Dec(n), word |-> WordMany]

format_hours(h) ==
    IF h % 2 /= 0
    THEN \* still a float after the int() test
         [num |-> FloatStr(h), word |-> WordFew]
    ELSE LET n == h \div 2
         IN  IF n % 10 = 1 /\ n % 100 /= 11 THEN [num |-> Dec(n), word |-> WordOne]
             ELSE IF n % 10 \in {2, 3, 4} /\ n % 100 \notin {12, 13, 14}
                  THEN [num |-> Dec(n), word |-> WordFew]
                  ELSE [num |-> Dec(n), word |-> WordMany]

----------------------------------------------------------------------------
(* Dicts, and the configuration *)

EmptyDict == << >>

\* None where a dict is expected (a failed fetch, a missing key of .get)
NoneValue == [none |-> TRUE]

\* d.get(k, default)
Get(d, k, default) == IF k \in DOMAIN d THEN d[k] ELSE default

\* `not v` for a dict or None
Falsy(v) == v = NoneValue \/ v = EmptyDict

\* the elements of a list
Range(list) == {list[i] : i \in 1..Len(list)}

\* CONFIG["groups"] of DEFAULT_CONFIG
Groups == <<"GPV12.1", "GPV18.1">>

\* CONFIG["sources"][...]["name"] of DEFAULT_CONFIG
github_name == "outage-data-ua"
yasno_name == "yasno"

\* group.replace("GPV", "") on the group names of the model
RemoveGPV(group) ==
    CASE group = "GPV12.1" -> "12.1"
      [] group = "GPV18.1" -> "18.1"
      [] group = "GPV99.9" -> "99.9"
      [] OTHER -> group

----------------------------------------------------------------------------
(* Dates.  A datetime is [ymd, secs]: its local calendar date as the       *)
(* string strftime("%Y-%m-%d") gives, and its local time of day in seconds.*)

\* KYIV_TZ = timezone(timedelta(hours=2)), in seconds
KyivOffset == 7200

SecondsPerDay == 86400

\* the calendar date of a day counted from 1970-01-01, for the days of the model
YmdOfDay(n) ==
    CASE n = 20102 -> "2025-01-14"
      [] n = 20103 -> "2025-01-15"
      [] n = 20104 -> "2025-01-16"
      [] n = 20105 -> "2025-01-17"
      [] n = 20106 -> "2025-01-18"

\* int(day_ts) for the keys of the model
IntOfKey(k) ==
    CASE k = "1736892000" -> 1736892000    \* 2025-01-15 00:00 in Kyiv
      [] k = "1736895600" -> 1736895600    \* 2025-01-15 01:00 in Kyiv
      [] k = "1736978400" -> 1736978400    \* 2025-01-16 00:00 in Kyiv
      [] k = "1737064800" -> 1737064800    \* 2025-01-17 00:00 in Kyiv
      [] k = "1737151200" -> 1737151200    \* 2025-01-18 00:00 in Kyiv

\* datetime.fromtimestamp(ts, tz=KYIV_TZ)
fromtimestamp(ts) ==
    [ymd |-> YmdOfDay((ts + KyivOffset) \div SecondsPerDay),
     secs |-> (ts + KyivOffset) % SecondsPerDay]

\* datetime.fromisoformat(s) for the date strings of the model
fromisoformat(str) ==
    CASE str = "2025-01-15T00:00:00+02:00" -> [ymd |-> "2025-01-15", secs |-> 0]
      [] str = "2025-01-15T12:00:00+02:00" -> [ymd |-> "2025-01-15", secs |-> 43200]
      [] str = "2025-01-16T00:00:00+02:00" -> [ymd |-> "2025-01-16", secs |-> 0]
      [] str = "2025-01-17T00:00:00+02:00" -> [ymd |-> "2025-01-17", secs |-> 0]

\* date.strftime("%Y-%m-%d")
strftime_ymd(date) == date.ymd

\* the place of a date string in the lexicographic order of strings
YmdRank(str) ==
    CASE str = "2025-01-14" -> 1
      [] str = "2025-01-15" -> 2
      [] str = "2025-01-16" -> 3
      [] str = "2025-01-17" -> 4
      [] str = "2025-01-18" -> 5

\* sorted(S, key=...), for keys of distinct rank; rank[x] is the sort key of x
RECURSIVE SortBy(_, _)
SortBy(S, rank) ==
    IF S = {} THEN << >>
    ELSE LET m == CHOOSE x \in S : \A y \in S : rank[x] <= rank[y]
         IN  <<m>> \o SortBy(S \ {m}, rank)

\* list[:n]
Take(list, n) == SubSeq(list, 1, IF Len(list) < n THEN Len(list) ELSE n)

----------------------------------------------------------------------------
(* GitHub-style normalizer *)

is_all_yes(day) ==
    \A hour \in 1..24 : Get(day, ToString(hour), "yes") = "yes"

HourHalves_first_is_first_half_on(status) ==
    CASE status = "yes" -> <<TRUE, TRUE>>
      [] status = "no" -> <<FALSE, FALSE>>
      [] status = "first" -> <<TRUE, FALSE>>
      [] status = "second" -> <<FALSE, TRUE>>
      [] OTHER -> <<TRUE, TRUE>>

\* the two halves of one hour
HourHalves(status) ==
    CASE status = "yes" -> <<TRUE, TRUE>>
      [] status = "no" -> <<FALSE, FALSE>>
      [] status = "first" -> <<FALSE, TRUE>>
      [] status = "second" -> <<TRUE, FALSE>>
      [] OTHER -> <<TRUE, TRUE>>

RECURSIVE GithubHours(_, _)
GithubHours(day, hour) ==
    IF hour > 24 THEN << >>
    ELSE HourHalves(Get(day, ToString(hour), "yes")) \o GithubHours(day, hour + 1)

parse_github_day(day) == GithubHours(day, 1)

\* one record of extract_github_schedules
GithubRecord(day, day_ts) ==
    IF is_all_yes(day)
    THEN [slots |-> Null, date |-> fromtimestamp(IntOfKey(day_ts)), status |-> "pending"]
    ELSE [slots |-> parse_github_day(day), date |-> fromtimestamp(IntOfKey(day_ts)),
          status |-> "normal"]

\* the loop over sorted_days[:2] for one group, from the dict `acc` on
RECURSIVE GithubGroup(_, _, _, _)
GithubGroup(fact_data, group, days, acc) ==
    IF days = << >> THEN acc
    ELSE LET day_ts == Head(days)
             day == Get(Get(fact_data, day_ts, EmptyDict), group, NoneValue)
             date_str == strftime_ymd(fromtimestamp(IntOfKey(day_ts)))
         IN  IF Falsy(day)
             THEN GithubGroup(fact_data, group, Tail(days), acc)
             ELSE GithubGroup(fact_data, group, Tail(days),
                    [d \in DOMAIN acc \cup {date_str} |->
                        IF d = date_str THEN GithubRecord(day, day_ts) ELSE acc[d]])

extract_github_schedules(data, groups) ==
    LET fact_data == Get(Get(data, "fact", EmptyDict), "data", EmptyDict)
    IN  IF Falsy(fact_data) THEN EmptyDict
        ELSE LET sorted_days == SortBy(DOMAIN fact_data, [k \in DOMAIN fact_data |-> IntOfKey(k)])
             IN  [group \in Range(groups) |->
                    GithubGroup(fact_data, group, Take(sorted_days, 2), EmptyDict)]

----------------------------------------------------------------------------
(* Yasno-style normalizer *)

Min(a, b) == IF a < b THEN a ELSE b

\* the list position that slots[i] of Python names, for -48 <= i < 48
PyIndex(i) == IF i < 0 THEN NumSlots + i ELSE i

\* slots[i] = ... raises IndexError
OutOfRange(i) == i < 0 - NumSlots \/ i >= NumSlots

StartIdx(interval) == Get(interval, "start", 0) \div 30
EndIdx(interval) == Get(interval, "end", 0) \div 30
IsOn(interval) == Get(interval, "type", "None") = "NotPlanned"

\* for i in range(start_idx, min(end_idx, 48)): slots[i] = is_on
WriteInterval(s, interval) ==
    LET written == {PyIndex(i) : i \in StartIdx(interval)..(Min(EndIdx(interval), NumSlots) - 1)}
    IN  [j \in 1..NumSlots |-> IF (j - 1) \in written THEN IsOn(interval) ELSE s[j]]

IntervalRaises(interval) ==
    \E i \in StartIdx(interval)..(Min(EndIdx(interval), NumSlots) - 1) : OutOfRange(i)

RECURSIVE ApplyIntervals(_, _)
ApplyIntervals(s, intervals) ==
    IF intervals = << >> THEN s
    ELSE ApplyIntervals(WriteInterval(s, Head(intervals)), Tail(intervals))

\* the call ends in an uncaught IndexError
parse_yasno_day_raises(day) ==
    /\ Get(day, "status", "") /= "EmergencyShutdowns"
    /\ Get(day, "slots", Null) /= Null
    /\ \E k \in 1..Len(day.slots) : IntervalRaises(day.slots[k])

parse_yasno_day_emergency_keeps_slots(day) ==
    IF Get(day, "slots", Null) = Null
    THEN <<Null, IF Get(day, "status", "") = "EmergencyShutdowns" THEN "emergency" ELSE "pending">>
    ELSE <<ApplyIntervals([j \in 1..NumSlots |-> TRUE], day.slots),
           IF Get(day, "status", "") = "EmergencyShutdowns" THEN "emergency" ELSE "normal">>

\* the (slots, status) returned when the call returns
parse_yasno_day(day) ==
    IF Get(day, "status", "") = "EmergencyShutdowns" THEN <<Null, "emergency">>
    ELSE IF Get(day, "slots", Null) = Null THEN <<Null, "pending">>
    ELSE <<ApplyIntervals([j \in 1..NumSlots |-> TRUE], day.slots), "normal">>

\* the days of one group that reach parse_yasno_day, in the order of the loop
YasnoDaysOf(group_data) ==
    SelectSeq(<<Get(group_data, "today", NoneValue), Get(group_data, "tomorrow", NoneValue)>>,
              LAMBDA day : ~Falsy(day) /\ "date" \in DOMAIN day)

RECURSIVE YasnoGroup(_, _)
YasnoGroup(days, acc) ==
    IF days = << >> THEN acc
    ELSE LET day == Head(days)
             date == fromisoformat(day.date)
             date_str == strftime_ymd(date)
             parsed == parse_yasno_day(day)
         IN  YasnoGroup(Tail(days),
                [d \in DOMAIN acc \cup {date_str} |->
                    IF d = date_str
                    THEN [slots |-> parsed[1], date |-> date, status |-> parsed[2]]
                    ELSE acc[d]])

\* the groups of the result: those whose bare key is in the payload
YasnoCovered(data, groups) == {g \in Range(groups) : RemoveGPV(g) \in DOMAIN data}

extract_yasno_schedules_raises(data, groups) ==
    /\ ~Falsy(data)
    /\ \E g \in YasnoCovered(data, groups) :
          \E k \in 1..Len(YasnoDaysOf(data[RemoveGPV(g)])) :
              parse_yasno_day_raises(YasnoDaysOf(data[RemoveGPV(g)])[k])

extract_yasno_schedules(data, groups) ==
    IF Falsy(data) THEN EmptyDict
    ELSE [g \in YasnoCovered(data, groups) |->
            YasnoGroup(YasnoDaysOf(data[RemoveGPV(g)]), EmptyDict)]

----------------------------------------------------------------------------
(* Period compressor *)

\* n * 0.5 as a float, held as its number of half-hours
TimesHalf(n) == n

\* the loop of slots_to_periods from index i on; st holds its three locals
RECURSIVE ScanSlots(_, _, _)
ScanSlots(s, i, st) ==
    IF i >= Len(s) THEN st
    ELSE IF At(s, i) /= st.current_status
         THEN ScanSlots(s, i + 1,
                [periods |-> Append(st.periods,
                                [start |-> format_slot_time(st.start_slot),
                                 end |-> format_slot_time(i),
                                 is_on |-> st.current_status,
                                 hours |-> TimesHalf(i - st.start_slot)]),
                 current_status |-> At(s, i),
                 start_slot |-> i])
         ELSE ScanSlots(s, i + 1, st)

slots_to_periods_no_flush(s) ==
    IF s = Null THEN << >>
    ELSE ScanSlots(s, 1, [periods |-> << >>,
                          current_status |-> At(s, 0),
                          start_slot |-> 0]).periods

slots_to_periods(s) ==
    IF s = Null THEN << >>
    ELSE LET st == ScanSlots(s, 1, [periods |-> << >>,
                                    current_status |-> At(s, 0),
                                    start_slot |-> 0])
         IN  Append(st.periods,
                [start |-> format_slot_time(st.start_slot),
                 end |-> format_slot_time(Len(s)),
                 is_on |-> st.current_status,
                 hours |-> TimesHalf(Len(s) - st.start_slot)])

----------------------------------------------------------------------------
(* Presenter.  A display unit is the text of format_schedule_list by its   *)
(* parts: the day header (the date and the sources), the fixed line of a   *)
(* special status, one line per period and the two totals.  The table      *)
(* format lays the same parts out in columns.                              *)

RECURSIVE TotalHours(_, _)
TotalHours(ps, on) ==
    IF ps = << >> THEN 0
    ELSE (IF ps[1].is_on = on THEN ps[1].hours ELSE 0) + TotalHours(Tail(ps), on)

format_schedule_message(ps, date, sources, special_status) ==
    IF special_status \in {"emergency", "pending"}
    THEN [header |-> [date |-> strftime_ymd(date), sources |-> sources],
          special |-> special_status,
          lines |-> << >>,
          totals |-> << >>]
    ELSE [header |-> [date |-> strftime_ymd(date), sources |-> sources],
          special |-> "none",
          lines |-> [k \in 1..Len(ps) |->
                        [is_on |-> ps[k].is_on, start |-> ps[k].start, end |-> ps[k].end,
                         hours_text |-> format_hours(ps[k].hours)]],
          totals |-> <<format_hours(TotalHours(ps, TRUE)), format_hours(TotalHours(ps, FALSE))>>]

\* the messages a provider's record gives: one, or none (the None of the code)
format_single_source_message(data, date, source) ==
    IF Falsy(data) THEN << >>
    ELSE IF data.status = "normal" /\ data.slots /= Null
         THEN <<format_schedule_message(slots_to_periods(data.slots), date, <<source>>, "none")>>
    ELSE IF data.status = "pending"
         THEN <<format_schedule_message(<< >>, date, <<source>>, "pending")>>
    ELSE IF data.status = "emergency"
         THEN <<format_schedule_message(<< >>, date, <<source>>, "emergency")>>
    ELSE << >>

----------------------------------------------------------------------------
(* Reconciler *)

schedules_match_by_identity(slots1, slots2) == FALSE

schedules_match_by_length(slots1, slots2) ==
    IF slots1 = Null \/ slots2 = Null THEN FALSE ELSE Len(slots1) = Len(slots2)

schedules_match(slots1, slots2) ==
    IF slots1 = Null \/ slots2 = Null THEN FALSE ELSE slots1 = slots2

SourceMessages_needs_both(group, date_str, gs, ys) ==
    LET github_record == Get(Get(gs, group, EmptyDict), date_str, NoneValue)
        yasno_record == Get(Get(ys, group, EmptyDict), date_str, NoneValue)
    IN  IF Falsy(github_record) \/ Falsy(yasno_record) THEN << >>
        ELSE IF github_record.status = "normal" /\ yasno_record.status = "normal"
                  /\ schedules_match(github_record.slots, yasno_record.slots)
             THEN <<format_schedule_message(slots_to_periods(github_record.slots),
                                            github_record.date,
                                            <<github_name, yasno_name>>, "none")>>
             ELSE format_single_source_message(github_record, github_record.date, github_name)
                    \o format_single_source_message(yasno_record, github_record.date, yasno_name)

\* the source_messages of one date
SourceMessages(group, date_str, gs, ys) ==
    LET github_record == Get(Get(gs, group, EmptyDict), date_str, NoneValue)
        yasno_record == Get(Get(ys, group, EmptyDict), date_str, NoneValue)
        date == IF ~Falsy(github_record) THEN github_record.date ELSE yasno_record.date
        github_slots == IF ~Falsy(github_record) THEN github_record.slots ELSE Null
        yasno_slots == IF ~Falsy(yasno_record) THEN yasno_record.slots ELSE Null
        github_status == IF ~Falsy(github_record) THEN github_record.status ELSE "None"
        yasno_status == IF ~Falsy(yasno_record) THEN yasno_record.status ELSE "None"
        both_normal ==
            /\ github_status = "normal"
            /\ yasno_status = "normal"
            /\ github_slots /= Null
            /\ yasno_slots /= Null
    IN  IF both_normal /\ schedules_match(github_slots, yasno_slots)
        THEN <<format_schedule_message(slots_to_periods(github_slots), date,
                                       <<github_name, yasno_name>>, "none")>>
        ELSE format_single_source_message(github_record, date, github_name)
                \o format_single_source_message(yasno_record, date, yasno_name)

\* the day_blocks of the dates of the list, in its order
RECURSIVE DayBlocks(_, _, _, _)
DayBlocks(group, dates, gs, ys) ==
    IF dates = << >> THEN << >>
    ELSE LET source_messages == SourceMessages(group, Head(dates), gs, ys)
         IN  (IF source_messages /= << >> THEN <<source_messages>> ELSE << >>)
                \o DayBlocks(group, Tail(dates), gs, ys)

\* the group messages format_group_message gives: one, or none
format_group_message(group, gs, ys) ==
    LET all_dates == DOMAIN Get(gs, group, EmptyDict) \cup DOMAIN Get(ys, group, EmptyDict)
        sorted_dates == Take(SortBy(all_dates, [d \in all_dates |-> YmdRank(d)]), 2)
        day_blocks == DayBlocks(group, sorted_dates, gs, ys)
    IN  IF all_dates = {} \/ day_blocks = << >> THEN << >>
        ELSE <<[header |-> RemoveGPV(group), days |-> day_blocks]>>

RECURSIVE GroupMessages(_, _, _)
GroupMessages(groups, gs, ys) ==
    IF groups = << >> THEN << >>
    ELSE format_group_message(Head(groups), gs, ys) \o GroupMessages(Tail(groups), gs, ys)

\* the text, by its parts, or None; the footer names the time of the run,
\* which no part of the model reads
format_full_message(gs, ys, groups) ==
    LET all_group_messages == GroupMessages(groups, gs, ys)
    IN  IF all_group_messages = << >> THEN NoneValue
        ELSE [groups |-> all_group_messages, footer |-> "updated"]

----------------------------------------------------------------------------
(* Change detector, and the two files *)

\* the records of one provider without their date objects
ReducedProvider(schedules) ==
    [group \in DOMAIN schedules |->
        [date_str \in DOMAIN schedules[group] |->
            [slots |-> schedules[group][date_str].slots,
             status |-> schedules[group][date_str].status]]]

schedules_to_cache_format_with_date(gs, ys) ==
    [github |-> gs, yasno |-> ys]

schedules_to_cache_format(gs, ys) ==
    [github |-> ReducedProvider(gs), yasno |-> ReducedProvider(ys)]

\* json.load of the cache file, or the empty cache when there is no file;
\* json.dump and json.load give back a cache of string keys, booleans and null
load_cached_schedules(file) ==
    IF file = << >> THEN [github |-> EmptyDict, yasno |-> EmptyDict] ELSE file[1]

\* the file save_cached_schedules leaves
save_cached_schedules(cache) == <<cache>>

schedules_changed_always(new, old) == TRUE

schedules_changed(new, old) == new /= old

\* "max_messages" of DEFAULT_CONFIG
DefaultMaxMessages == 3

\* the list manage_messages saves: the new id appended, the oldest ids popped
\* while the list is longer than max_messages
RECURSIVE PopOldest(_)
PopOldest(ids) == IF Len(ids) > max_messages THEN PopOldest(Tail(ids)) ELSE ids

manage_messages_pops_once(ids, new_message_id) ==
    IF Len(ids) + 1 > max_messages THEN Tail(Append(ids, new_message_id))
    ELSE Append(ids, new_message_id)

manage_messages(ids, new_message_id) == PopOldest(Append(ids, new_message_id))

\* the ids manage_messages pops, in the order it pops them
RECURSIVE PoppedIds(_)
PoppedIds(ids) ==
    IF Len(ids) > max_messages THEN <<Head(ids)>> \o PoppedIds(Tail(ids)) ELSE << >>

\* the requests manage_messages makes: the pin of the new message, then a
\* deletion for each popped id; pin_ok and delete_ok are what Telegram answers
ManageRequests(ids, new_message_id, pin_ok, delete_ok) ==
    LET popped == PoppedIds(Append(ids, new_message_id))
    IN  <<[method |-> "pinChatMessage", message_id |-> new_message_id, ok |-> pin_ok]>>
            \o [k \in 1..Len(popped) |->
                    [method |-> "deleteMessage", message_id |-> popped[k], ok |-> delete_ok[k]]]

----------------------------------------------------------------------------
(* Inputs of the period compressor: the 48-slot arrays that change value   *)
(* at most MaxToggles times, and the absent array.                         *)

RECURSIVE ToggleSets(_)
ToggleSets(k) ==
    IF k = 0 THEN {{}}
    ELSE LET P == ToggleSets(k - 1)
         IN  P \cup {S \cup {x} : S \in P, x \in 1..(NumSlots - 1)}

Odd(n) == n % 2 = 1

\* the array that starts with `first` and changes value at each index of T
FromToggles(first, T) ==
    [i \in 1..NumSlots |-> first /= Odd(Cardinality({t \in T : t <= i - 1}))]

SlotArrays == {FromToggles(first, T) : first \in BOOLEAN, T \in ToggleSets(MaxToggles)}

IdlePeriods == slots = Null /\ periods = << >>
IdleHours == hours_arg = 0 /\ hours_text = Null
IdleDay == day_data = EmptyDict /\ day_ret = Null
\* nothing computed yet in this run
FreshRun ==
    /\ github_schedules = EmptyDict
    /\ yasno_schedules = EmptyDict
    /\ message = NoneValue
    /\ new_cache = EmptyDict
    /\ old_cache = EmptyDict
    /\ message_id = 0

\* the first run on a machine: no file written yet, an empty channel
FirstRun ==
    /\ cache_file = << >>
    /\ ids_file = << >>
    /\ next_id = 1
    /\ repeat = FALSE
    /\ sent_schedules = <<EmptyDict, EmptyDict>>
    /\ retry = FALSE
    /\ delivered = Null
    /\ start_files = <<cache_file, ids_file>>
    /\ max_messages = DefaultMaxMessages
    /\ requests = << >>

IdleRun ==
    /\ github_data = NoneValue
    /\ yasno_data = NoneValue
    /\ FreshRun
    /\ FirstRun

InitPeriods ==
    /\ pc = "call"
    /\ slots \in SlotArrays \cup {Null}
    /\ periods = << >>
    /\ IdleHours /\ IdleDay /\ IdleRun

CallSlotsToPeriods ==
    /\ pc = "call"
    /\ periods' = slots_to_periods(slots)
    /\ pc' = "returned"
    /\ UNCHANGED <<slots, hoursVars, dayVars, progVars>>

NextPeriods == CallSlotsToPeriods

SpecPeriods == InitPeriods /\ [][NextPeriods]_vars

----------------------------------------------------------------------------
(* format_hours on every multiple of 0.5 up to MaxHalfHours / 2 *)

InitHours ==
    /\ pc = "call"
    /\ hours_arg \in 0..MaxHalfHours
    /\ hours_text = Null
    /\ IdlePeriods /\ IdleDay /\ IdleRun

CallFormatHours ==
    /\ pc = "call"
    /\ hours_text' = format_hours(hours_arg)
    /\ pc' = "returned"
    /\ UNCHANGED <<hours_arg, periodVars, dayVars, progVars>>

NextHours == CallFormatHours

SpecHours == InitHours /\ [][NextHours]_vars

----------------------------------------------------------------------------
(* parse_yasno_day on the days of at most MaxIntervals intervals *)

\* start and end minutes of the drawn intervals: below 0, inside the day, at
\* its end and past it
StartMinutes == {-1500, -30, 0, 45, 720, 1500}
EndMinutes == {-30, 60, 750, 1440, 1500}

IntervalTypes == {"Definite", "NotPlanned"}

Intervals ==
    [start : StartMinutes, end : EndMinutes, type : IntervalTypes]
        \cup {[end |-> 60, type |-> "Definite"], [start |-> 1410, type |-> "Definite"],
              [start |-> 0, end |-> 60]}

\* the lists of 1 to n elements of S
RECURSIVE ListsUpTo(_, _)
ListsUpTo(S, n) ==
    IF n = 0 THEN {}
    ELSE {<<x>> : x \in S} \cup {Append(l, x) : l \in ListsUpTo(S, n - 1), x \in S}

YasnoDayInputs ==
    {[status |-> "ScheduleApplies", slots |-> l] : l \in ListsUpTo(Intervals, MaxIntervals)}
        \cup {[slots |-> <<[start |-> 0, end |-> 60, type |-> "Definite"]>>],
              [status |-> "EmergencyShutdowns",
               slots |-> <<[start |-> 0, end |-> 60, type |-> "Definite"]>>],
              [status |-> "EmergencyShutdowns"],
              [status |-> "ScheduleApplies", slots |-> << >>],
              [status |-> "ScheduleApplies"],
              [status |-> "WaitingForSchedule", slots |-> << >>]}

InitYasnoDay ==
    /\ pc = "call"
    /\ day_data \in YasnoDayInputs
    /\ day_ret = Null
    /\ IdlePeriods /\ IdleHours /\ IdleRun

CallParseYasnoDay ==
    /\ pc = "call"
    /\ IF parse_yasno_day_raises(day_data)
       THEN pc' = "raised" /\ UNCHANGED day_ret
       ELSE pc' = "returned" /\ day_ret' = parse_yasno_day(day_data)
    /\ UNCHANGED <<day_data, periodVars, hoursVars, progVars>>

NextYasnoDay == CallParseYasnoDay

SpecYasnoDay == InitYasnoDay /\ [][NextYasnoDay]_vars

----------------------------------------------------------------------------
(* The two normalizers on one provider's payload at a time *)

\* the day payloads of a group in a GitHub payload
GithubDayInputs ==
    {EmptyDict,
     "1" :> "yes",
     "25" :> "no",
     "1" :> "no",
     "24" :> "first",
     "13" :> "maybe",
     ("1" :> "no") @@ ("13" :> "second")}

DayKeys == {"1736892000", "1736895600", "1736978400", "1737064800"}

\* what a GitHub payload holds under one day key: a day payload for the first
\* configured group or none, one for the second or none, and a group not asked for
GithubDayEntries ==
    {[g \in G1 \cup G2 \cup {"GPV99.9"} |->
        IF g = "GPV12.1" THEN d1 ELSE IF g = "GPV18.1" THEN "1" :> "no" ELSE "2" :> "no"] :
        G1 \in {{}, {"GPV12.1"}}, G2 \in {{}, {"GPV18.1"}}, d1 \in GithubDayInputs}

\* the subsets of S of 1 to n elements
RECURSIVE SubsetsUpTo(_, _)
SubsetsUpTo(S, n) ==
    IF n = 0 THEN {}
    ELSE {{x} : x \in S} \cup {T \cup {x} : T \in SubsetsUpTo(S, n - 1), x \in S}

GithubPayloads ==
    {EmptyDict, [fact |-> EmptyDict], [fact |-> [data |-> EmptyDict]]}
        \cup {[fact |-> [data |-> fd]] :
                fd \in UNION {[K -> GithubDayEntries] : K \in SubsetsUpTo(DayKeys, MaxDays)}}

YasnoIntervalLists ==
    {<<[start |-> 0, end |-> 60, type |-> "Definite"]>>,
     <<[start |-> 0, end |-> 1440, type |-> "NotPlanned"]>>,
     <<[start |-> 0, end |-> 1500, type |-> "Definite"],
       [start |-> 720, end |-> 780, type |-> "NotPlanned"]>>,
     <<[start |-> -30, end |-> 60, type |-> "Definite"]>>,
     <<[start |-> -1500, end |-> 60, type |-> "Definite"]>>}

\* the day entries of a Yasno payload, by the date they carry
YasnoDayEntries(date) ==
    {[date |-> date],
     [date |-> date, status |-> "EmergencyShutdowns",
      slots |-> <<[start |-> 0, end |-> 60, type |-> "Definite"]>>],
     [date |-> date, status |-> "ScheduleApplies", slots |-> << >>],
     [status |-> "ScheduleApplies",
      slots |-> <<[start |-> 0, end |-> 60, type |-> "Definite"]>>],
     EmptyDict}
        \cup {[date |-> date, status |-> "ScheduleApplies", slots |-> l] :
                l \in YasnoIntervalLists}

YasnoGroupEntries ==
    {[k \in K1 \cup K2 |-> IF k = "today" THEN d1 ELSE d2] :
        K1 \in {{}, {"today"}}, K2 \in {{}, {"tomorrow"}},
        d1 \in UNION {YasnoDayEntries(t) :
                        t \in {"2025-01-15T00:00:00+02:00", "2025-01-15T12:00:00+02:00"}},
        d2 \in UNION {YasnoDayEntries(t) :
                        t \in {"2025-01-16T00:00:00+02:00", "2025-01-15T00:00:00+02:00"}}}

YasnoPayloads ==
    {EmptyDict}
        \cup {[k \in K1 \cup K2 \cup {"99.9"} |->
                IF k = "12.1" THEN g1
                ELSE [today |-> [date |-> "2025-01-15T00:00:00+02:00",
                                 status |-> "ScheduleApplies",
                                 slots |-> <<[start |-> 0, end |-> 60, type |-> "Definite"]>>]]] :
                K1 \in {{}, {"12.1"}}, K2 \in {{}, {"18.1"}}, g1 \in YasnoGroupEntries}

InitNorm ==
    /\ pc = "fetched"
    /\ \/ github_data \in GithubPayloads /\ yasno_data = NoneValue
       \/ github_data = NoneValue /\ yasno_data \in YasnoPayloads
    /\ FreshRun
    /\ FirstRun
    /\ IdlePeriods /\ IdleHours /\ IdleDay

\* main, "Extract schedules": an uncaught IndexError ends the process
ExtractSchedules ==
    /\ pc = "fetched"
    /\ IF extract_yasno_schedules_raises(yasno_data, Groups)
       THEN /\ pc' = "raised"
            /\ github_schedules' =
                  (IF Falsy(github_data) THEN EmptyDict
                   ELSE extract_github_schedules(github_data, Groups))
            /\ UNCHANGED yasno_schedules
       ELSE /\ pc' = "extracted"
            /\ github_schedules' =
                  (IF Falsy(github_data) THEN EmptyDict
                   ELSE extract_github_schedules(github_data, Groups))
            /\ yasno_schedules' =
                  (IF Falsy(yasno_data) THEN EmptyDict
                   ELSE extract_yasno_schedules(yasno_data, Groups))
    /\ UNCHANGED <<fetchVars, message, runVars, fileVars, next_id, historyVars, callVars, manageVars>>

NextNorm == ExtractSchedules

SpecNorm == InitNorm /\ [][NextNorm]_vars

----------------------------------------------------------------------------
(* The GitHub-style normalizer on one day, and the period compressor on    *)
(* the slots it gives: the days in which at most MaxCodedHours hours carry *)
(* a code of their own, every other hour absent or every other hour "yes", *)
(* and the days in which the codes follow each other hour after hour.      *)

HourCodes == {"yes", "no", "first", "second", "maybe", "mfirst", "msecond"}

\* the codes in a row, for the days in which every hour carries one
CodeCycle == <<"yes", "no", "first", "second", "maybe", "mfirst", "msecond">>

\* the hour a key names; 0 and 25 are keys the code never reads
HourOfKey(k) == CHOOSE h \in 0..25 : ToString(h) = k

\* the coded hours of a day: a choice of hours and a code for each
CodedHours ==
    {<< >>} \cup UNION {[H -> HourCodes] : H \in SubsetsUpTo(1..24, MaxCodedHours)}

GithubDays ==
    {[k \in {ToString(h) : h \in DOMAIN coded} |-> coded[HourOfKey(k)]] : coded \in CodedHours}
        \cup {[k \in {ToString(h) : h \in 1..24} |->
                    IF HourOfKey(k) \in DOMAIN coded THEN coded[HourOfKey(k)] ELSE "yes"] :
                coded \in CodedHours}
        \cup {[k \in {ToString(h) : h \in 1..24} |->
                    CodeCycle[((HourOfKey(k) + shift) % Len(CodeCycle)) + 1]] :
                shift \in 1..Len(CodeCycle)}
        \cup {("0" :> "no") @@ ("25" :> "no"),
              ("1" :> "no") @@ ("25" :> "first")}

InitGithubDay ==
    /\ pc = "call"
    /\ day_data \in GithubDays
    /\ day_ret = Null
    /\ IdlePeriods /\ IdleHours /\ IdleRun

\* extract_github_schedules on one day of a group: its record
CallParseGithubDay ==
    /\ pc = "call"
    /\ day_ret' = GithubRecord(day_data, "1736892000")
    /\ pc' = "returned"
    /\ UNCHANGED <<day_data, periodVars, hoursVars, progVars>>

\* format_single_source_message on a normal record: the periods of its slots
CompressDay ==
    /\ pc = "returned"
    /\ day_ret.status = "normal"
    /\ slots' = day_ret.slots
    /\ periods' = slots_to_periods(day_ret.slots)
    /\ pc' = "compressed"
    /\ UNCHANGED <<dayVars, hoursVars, progVars>>

NextGithubDay == CallParseGithubDay \/ CompressDay

SpecGithubDay == InitGithubDay /\ [][NextGithubDay]_vars

----------------------------------------------------------------------------
(* The reconciler and the presenter on the snapshots of both providers *)

\* day payloads of the first group: pending, off in slots 0-1, all on, off in slot 0
GithubDaysSmall == {"1" :> "yes", "1" :> "no", "13" :> "maybe", "1" :> "first"}

GithubEntriesSmall ==
    {[g \in G1 \cup G2 |-> IF g = "GPV12.1" THEN d1 ELSE "1" :> "no"] :
        G1 \in {{}, {"GPV12.1"}}, G2 \in {{}, {"GPV18.1"}}, d1 \in GithubDaysSmall}

GithubPayloadsSmall ==
    {[fact |-> [data |-> fd]] :
        fd \in UNION {[K -> GithubEntriesSmall] :
                        K \in {{"1736892000"}, {"1736892000", "1736978400"},
                               {"1736978400", "1737064800"}}}}

\* day entries of the first group: emergency, pending, off in slots 0-1, all on,
\* off in slot 0
YasnoDaysSmall(date) ==
    {[date |-> date, status |-> "EmergencyShutdowns", slots |-> << >>],
     [date |-> date, status |-> "WaitingForSchedule", slots |-> << >>],
     [date |-> date, status |-> "ScheduleApplies",
      slots |-> <<[start |-> 0, end |-> 60, type |-> "Definite"]>>],
     [date |-> date, status |-> "ScheduleApplies",
      slots |-> <<[start |-> 0, end |-> 1440, type |-> "NotPlanned"]>>],
     [date |-> date, status |-> "ScheduleApplies",
      slots |-> <<[start |-> 0, end |-> 30, type |-> "Definite"]>>]}

YasnoPayloadsSmall ==
    {[k \in {"12.1"} \cup K2 |->
        IF k = "12.1" THEN [d \in D1 \cup D2 |-> IF d = "today" THEN d1 ELSE d2]
        ELSE [today |-> [date |-> "2025-01-15T00:00:00+02:00", status |-> "ScheduleApplies",
                         slots |-> <<[start |-> 0, end |-> 60, type |-> "Definite"]>>]]] :
        K2 \in {{}, {"18.1"}}, D1 \in {{}, {"today"}}, D2 \in {{}, {"tomorrow"}},
        d1 \in YasnoDaysSmall("2025-01-15T00:00:00+02:00"),
        d2 \in YasnoDaysSmall("2025-01-16T00:00:00+02:00")}

InitFormat ==
    /\ pc = "fetched"
    /\ github_data \in GithubPayloadsSmall \cup {NoneValue}
    /\ yasno_data \in YasnoPayloadsSmall \cup {NoneValue}
    /\ github_data /= NoneValue \/ yasno_data /= NoneValue
    /\ FreshRun
    /\ FirstRun
    /\ IdlePeriods /\ IdleHours /\ IdleDay

\* main, "Compare with cache"
CompareWithCache ==
    /\ pc = "extracted"
    /\ new_cache' = schedules_to_cache_format(github_schedules, yasno_schedules)
    /\ old_cache' = load_cached_schedules(cache_file)
    /\ pc' = (IF schedules_changed(schedules_to_cache_format(github_schedules, yasno_schedules),
                                   load_cached_schedules(cache_file))
              THEN "changed" ELSE "no_change")
    /\ UNCHANGED <<fetchVars, snapshotVars, message, message_id, fileVars, next_id,
                   historyVars, callVars, manageVars>>

\* main, "Format message"
FormatMessage ==
    /\ pc = "changed"
    /\ message' = format_full_message(github_schedules, yasno_schedules, Groups)
    /\ pc' = (IF format_full_message(github_schedules, yasno_schedules, Groups) = NoneValue
              THEN "no_message" ELSE "formatted")
    /\ UNCHANGED <<fetchVars, snapshotVars, runVars, fileVars, next_id, historyVars, callVars, manageVars>>

NextFormat == ExtractSchedules \/ CompareWithCache \/ FormatMessage

SpecFormat == InitFormat /\ [][NextFormat]_vars

----------------------------------------------------------------------------
(* Runs of main, one after the other, on the payloads the providers give *)

\* off in slots 0-1 on 2025-01-15; the same under a day key one hour later;
\* off in slot 0 only; a payload without the configured groups; and a day still
\* pending for the second group
GithubPayloadsMain ==
    {[fact |-> [data |-> "1736892000" :> ("GPV12.1" :> ("1" :> "no"))]],
     [fact |-> [data |-> "1736895600" :> ("GPV12.1" :> ("1" :> "no"))]],
     [fact |-> [data |-> "1736892000" :> ("GPV12.1" :> ("1" :> "first"))]],
     [fact |-> [data |-> "1736892000" :> ("GPV99.9" :> ("1" :> "no"))]],
     [fact |-> [data |-> "1736978400" :> ("GPV18.1" :> ("1" :> "yes"))]]}

\* off in slots 0-1 on 2025-01-15; emergency; no group at all; an interval that
\* starts 25 hours before the day
YasnoPayloadsMain ==
    {"12.1" :> [today |-> [date |-> "2025-01-15T00:00:00+02:00", status |-> "ScheduleApplies",
                           slots |-> <<[start |-> 0, end |-> 60, type |-> "Definite"]>>]],
     "12.1" :> [today |-> [date |-> "2025-01-15T00:00:00+02:00",
                           status |-> "EmergencyShutdowns", slots |-> << >>]],
     EmptyDict,
     "12.1" :> [today |-> [date |-> "2025-01-15T00:00:00+02:00", status |-> "ScheduleApplies",
                           slots |-> <<[start |-> -1500, end |-> 60, type |-> "Definite"]>>]]}

\* the positions at which no run is under way
Ended == {"never_run", "no_data", "raised", "no_change", "no_message", "send_failed", "saved"}

Init ==
    /\ pc = "never_run"
    /\ IdleRun
    /\ IdlePeriods /\ IdleHours /\ IdleDay

\* main, "Fetch from enabled sources": a source that is disabled or whose fetch
\* fails gives None; with both None the run ends
FetchData ==
    /\ pc \in Ended
    /\ \E g \in GithubPayloadsMain \cup {NoneValue}, y \in YasnoPayloadsMain \cup {NoneValue} :
          /\ github_data' = g
          /\ yasno_data' = y
          /\ repeat' = (pc = "saved" /\ g = github_data /\ y = yasno_data)
          /\ retry' = (pc = "send_failed" /\ g = github_data /\ y = yasno_data)
          /\ pc' = (IF g = NoneValue /\ y = NoneValue THEN "no_data" ELSE "fetched")
    /\ github_schedules' = EmptyDict
    /\ yasno_schedules' = EmptyDict
    /\ message' = NoneValue
    /\ new_cache' = EmptyDict
    /\ old_cache' = EmptyDict
    /\ message_id' = 0
    /\ start_files' = <<cache_file, ids_file>>
    /\ UNCHANGED <<fileVars, next_id, sent_schedules, delivered, callVars, manageVars>>

SendMessage_failure_saves_cache ==
    /\ pc = "formatted"
    /\ \/ /\ next_id <= MaxMessageId
          /\ message_id' = next_id
          /\ next_id' = next_id + 1
          /\ delivered' = <<github_schedules, yasno_schedules>>
          /\ pc' = "sent"
       \/ /\ message_id' = 0
          /\ pc' = "managed"
          /\ UNCHANGED <<next_id, delivered>>
    /\ UNCHANGED <<fetchVars, snapshotVars, message, new_cache, old_cache, fileVars,
                   repeat, sent_schedules, retry, start_files, callVars, manageVars>>

\* main, "Send to Telegram": the id of the new message, or None
SendMessage ==
    /\ pc = "formatted"
    /\ \/ /\ next_id <= MaxMessageId
          /\ message_id' = next_id
          /\ next_id' = next_id + 1
          /\ delivered' = <<github_schedules, yasno_schedules>>
          /\ pc' = "sent"
       \/ /\ message_id' = 0
          /\ pc' = "send_failed"
          /\ UNCHANGED <<next_id, delivered>>
    /\ UNCHANGED <<fetchVars, snapshotVars, message, new_cache, old_cache, fileVars,
                   repeat, sent_schedules, retry, start_files, callVars, manageVars>>

\* main, manage_messages(message_id)
ManageMessages ==
    /\ pc = "sent"
    /\ \E pin_ok \in BOOLEAN :
       \E delete_ok \in [1..Len(PoppedIds(Append(ids_file, message_id))) -> BOOLEAN] :
          requests' = ManageRequests(ids_file, message_id, pin_ok, delete_ok)
    /\ ids_file' = manage_messages(ids_file, message_id)
    /\ pc' = "managed"
    /\ UNCHANGED <<fetchVars, snapshotVars, message, runVars, cache_file, next_id,
                   historyVars, callVars, max_messages>>

\* main, save_cached_schedules(new_cache)
SaveCache ==
    /\ pc = "managed"
    /\ cache_file' = save_cached_schedules(new_cache)
    /\ sent_schedules' = <<github_schedules, yasno_schedules>>
    /\ pc' = "saved"
    /\ UNCHANGED <<fetchVars, snapshotVars, message, runVars, ids_file, next_id, repeat,
                   retry, delivered, start_files, callVars, manageVars>>

Next ==
    \/ FetchData
    \/ ExtractSchedules
    \/ CompareWithCache
    \/ FormatMessage
    \/ SendMessage
    \/ ManageMessages
    \/ SaveCache

Spec == Init /\ [][Next]_vars

----------------------------------------------------------------------------
(* manage_messages on the stored lists of at most MaxStored ids, under a   *)
(* max_messages of 1 to MaxConfigured: the step of main after a send that  *)
(* returned the id MaxStoredId + 1.                                        *)

StoredLists == {<< >>} \cup ListsUpTo(1..MaxStoredId, MaxStored)

InitManage ==
    /\ pc = "sent"
    /\ max_messages \in 1..MaxConfigured
    /\ ids_file \in StoredLists
    /\ message_id = MaxStoredId + 1
    /\ next_id = MaxStoredId + 2
    /\ requests = << >>
    /\ cache_file = << >>
    /\ start_files = <<cache_file, ids_file>>
    /\ repeat = FALSE
    /\ retry = FALSE
    /\ sent_schedules = <<EmptyDict, EmptyDict>>
    /\ delivered = Null
    /\ github_data = NoneValue
    /\ yasno_data = NoneValue
    /\ github_schedules = EmptyDict
    /\ yasno_schedules = EmptyDict
    /\ message = NoneValue
    /\ new_cache = EmptyDict
    /\ old_cache = EmptyDict
    /\ IdlePeriods /\ IdleHours /\ IdleDay

NextManage == ManageMessages

SpecManage == InitManage /\ [][NextManage]_vars

----------------------------------------------------------------------------
(* Reading a period list back, as a reader of the message would *)

DigitVal(c) == CHOOSE d \in 0..9 : Digits[d + 1] = c

\* slot index of a time "HH:MM": its minutes / 30, so that "24:00" is 48
SlotOfTime(t) ==
    ((DigitVal(t[1]) * 10 + DigitVal(t[2])) * 60 + DigitVal(t[4]) * 10 + DigitVal(t[5])) \div 30

\* the periods of ps that write slot index i, by their place in ps
Writers(ps, i) ==
    {k \in 1..Len(ps) : SlotOfTime(ps[k].start) <= i /\ i < SlotOfTime(ps[k].end)}

Max(S) == CHOOSE x \in S : \A y \in S : y <= x

\* ps written in order over a day reproduces the array s, and writes only into it
ReExpandsTo(ps, s) ==
    /\ \A k \in 1..Len(ps) : SlotOfTime(ps[k].start) >= 0 /\ SlotOfTime(ps[k].end) <= NumSlots
    /\ \A i \in 0..(NumSlots - 1) :
          /\ Writers(ps, i) /= {}
          /\ ps[Max(Writers(ps, i))].is_on = At(s, i)

RECURSIVE SumHours(_)
SumHours(ps) == IF ps = << >> THEN 0 ELSE ps[1].hours + SumHours(Tail(ps))

\* C1: for every 48-slot array, writing each returned period's is_on over the
\* slots from its start time to its end time, in order, gives the array back.
C1_RoundTrip ==
    (pc = "returned" /\ slots /= Null) => ReExpandsTo(periods, slots)

C1_Witness ==
    /\ pc = "returned"
    /\ slots /= Null
    /\ Len(periods) = 3
    /\ ~periods[1].is_on
    /\ ReExpandsTo(periods, slots)

\* C2: for every 48-slot array the returned periods partition [0,48): the first
\* starts at slot 0, each starts where the previous one ends, the last ends at
\* slot 48, each is non-empty with hours = 0.5 x (end - start), adjacent periods
\* differ in is_on, and the hours sum to 24.
C2_Partition ==
    (pc = "returned" /\ slots /= Null) =>
        LET n == Len(periods)
            S(k) == SlotOfTime(periods[k].start)
            E(k) == SlotOfTime(periods[k].end)
        IN  /\ n >= 1
            /\ S(1) = 0
            /\ E(n) = NumSlots
            /\ \A k \in 1..n : S(k) < E(k) /\ periods[k].hours = E(k) - S(k)
            /\ \A k \in 1..(n - 1) :
                  /\ S(k + 1) = E(k)
                  /\ periods[k + 1].is_on /= periods[k].is_on
            /\ SumHours(periods) = NumSlots

C2_Witness ==
    /\ pc = "returned"
    /\ slots /= Null
    /\ Len(periods) = 3
    /\ periods[1].is_on
    /\ periods[2].hours = 1
    /\ SumHours(periods) = NumSlots

\* the claim's hour counts: the multiples of 0.5 in [0, 24], in half-hours
InClaimedRange(h) == h <= NumSlots

\* the form the declension rule gives the integer n
FormOfInteger(n) ==
    IF n % 10 = 1 /\ n /= 11 THEN WordOne
    ELSE IF n \in {2, 3, 4, 22, 23, 24} THEN WordFew
    ELSE WordMany

\* C9 as stated: over the multiples of 0.5 in [0, 24], an integer gets the form
\* of the declension rule and every non-integer gets the generic plural
\* ("годин", the form of 11-14).
C9_AsStated ==
    (pc = "returned" /\ hours_text /= Null /\ InClaimedRange(hours_arg)) =>
        hours_text.word = (IF hours_arg % 2 = 0 THEN FormOfInteger(hours_arg \div 2) ELSE WordMany)

\* C9 amended: over the multiples of 0.5 in [0, 24], an integer gets the form of
\* the declension rule (1, 21 singular; 2-4, 22-24 "години"; every other integer
\* "годин") and every non-integer gets "години", the form of 2-4, whatever its
\* fractional part.
C9_Declension ==
    (pc = "returned" /\ hours_text /= Null /\ InClaimedRange(hours_arg)) =>
        hours_text.word = (IF hours_arg % 2 = 0 THEN FormOfInteger(hours_arg \div 2) ELSE WordFew)

C9_Witness ==
    /\ pc = "returned"
    /\ hours_arg = 25
    /\ hours_text = [num |-> <<"1", "2", ".", "5">>, word |-> WordFew]

----------------------------------------------------------------------------
(* The normalizers *)

\* every hour key 1..24 of the day payload is absent or "yes"
AllHoursYes(day) ==
    \A h \in 1..24 : ToString(h) \notin DOMAIN day \/ day[ToString(h)] = "yes"

\* the day keys the GitHub-style normalizer reads: the two earliest
ReadDayKeys(fact_data) ==
    {k \in DOMAIN fact_data :
        Cardinality({o \in DOMAIN fact_data : IntOfKey(o) < IntOfKey(k)}) < 2}

DateOfKey(k) == YmdOfDay((IntOfKey(k) + KyivOffset) \div SecondsPerDay)

\* no later day key that is read falls on the same date for the same group
LastOfItsDate(fact_data, k, group) ==
    \A o \in ReadDayKeys(fact_data) :
        (IntOfKey(o) > IntOfKey(k) /\ group \in DOMAIN fact_data[o]) => DateOfKey(o) /= DateOfKey(k)

HasFactData(data) ==
    /\ data /= NoneValue
    /\ "fact" \in DOMAIN data
    /\ "data" \in DOMAIN data.fact
    /\ data.fact.data /= EmptyDict

HasRecord(schedules, group, date_str) ==
    group \in DOMAIN schedules /\ date_str \in DOMAIN schedules[group]

\* C7: a day payload given for a requested group in which every hour 1..24 is
\* absent or "yes" (also when every hour key is absent) gives a record for
\* that group and date with status pending and no slots; one with an hour code
\* other than "yes" gives status normal.
C7_AsStated ==
    (pc = "extracted" /\ HasFactData(github_data)) =>
        \A group \in Range(Groups) : \A k \in ReadDayKeys(github_data.fact.data) :
            (group \in DOMAIN github_data.fact.data[k]
                /\ LastOfItsDate(github_data.fact.data, k, group)) =>
                /\ HasRecord(github_schedules, group, DateOfKey(k))
                /\ LET day == github_data.fact.data[k][group]
                       rec == github_schedules[group][DateOfKey(k)]
                   IN  IF AllHoursYes(day)
                       THEN rec.status = "pending" /\ rec.slots = Null
                       ELSE rec.status = "normal"

\* the intervals of the list that cover slot index i, by their place in it
Covering(intervals, i) ==
    {k \in 1..Len(intervals) :
        /\ Get(intervals[k], "start", 0) \div 30 <= i
        /\ i < Min(Get(intervals[k], "end", 0) \div 30, NumSlots)}

\* C8: for a day that is not emergency and has a non-empty interval list, for
\* any integer start and end minutes and any order of intervals, the call
\* raises no error and returns exactly 48 slots, of which slot i is off iff the
\* last interval in payload order that covers i has a type other than
\* "NotPlanned", a slot covered by no interval being on.
C8_AsStated ==
    (pc /= "call" /\ Get(day_data, "status", "") /= "EmergencyShutdowns"
        /\ Get(day_data, "slots", Null) /= Null) =>
        /\ pc = "returned"
        /\ Len(day_ret[1]) = NumSlots
        /\ \A i \in 0..(NumSlots - 1) :
              LET cover == Covering(day_data.slots, i)
              IN  At(day_ret[1], i) =
                    (cover = {} \/ Get(day_data.slots[Max(cover)], "type", "None") = "NotPlanned")

Statuses == {"normal", "pending", "emergency"}

\* the DaySchedule invariant on one record
WellFormedRecord(rec) ==
    /\ rec.status \in Statuses
    /\ rec.status = "normal" <=> rec.slots /= Null
    /\ rec.slots /= Null =>
          Len(rec.slots) = NumSlots /\ \A i \in 1..NumSlots : rec.slots[i] \in BOOLEAN

AllWellFormed(schedules) ==
    \A group \in DOMAIN schedules : \A d \in DOMAIN schedules[group] :
        WellFormedRecord(schedules[group][d])

\* the calendar date an ISO-8601 date field names
IsoYmd(str) ==
    CASE str = "2025-01-15T00:00:00+02:00" -> "2025-01-15"
      [] str = "2025-01-15T12:00:00+02:00" -> "2025-01-15"
      [] str = "2025-01-16T00:00:00+02:00" -> "2025-01-16"
      [] str = "2025-01-17T00:00:00+02:00" -> "2025-01-17"

\* the Yasno day entries that give the record of their date: those with a date,
\* "today" only when "tomorrow" does not carry the same date
YasnoWinners(group_data) ==
    {k \in {"today", "tomorrow"} :
        /\ k \in DOMAIN group_data
        /\ group_data[k] /= EmptyDict
        /\ "date" \in DOMAIN group_data[k]
        /\ (k = "today" /\ "tomorrow" \in DOMAIN group_data
                /\ "date" \in DOMAIN group_data.tomorrow)
              => IsoYmd(group_data.tomorrow.date) /= IsoYmd(group_data.today.date)}

YasnoSpecialDays(data, schedules) ==
    \A group \in Range(Groups) :
        RemoveGPV(group) \in DOMAIN data =>
            \A k \in YasnoWinners(data[RemoveGPV(group)]) :
                LET day == data[RemoveGPV(group)][k]
                IN  /\ HasRecord(schedules, group, IsoYmd(day.date))
                    /\ LET rec == schedules[group][IsoYmd(day.date)]
                       IN  /\ ("status" \in DOMAIN day /\ day.status = "EmergencyShutdowns")
                                => rec.status = "emergency" /\ rec.slots = Null
                           /\ (~("status" \in DOMAIN day /\ day.status = "EmergencyShutdowns")
                                /\ ("slots" \notin DOMAIN day \/ day.slots = << >>))
                                => rec.status = "pending"

\* C10: every record either normalizer produces has a status among normal,
\* pending, emergency; its status is normal iff its slots are present, and then
\* they are exactly 48 booleans; a Yasno day tagged "EmergencyShutdowns" is
\* emergency without slots even when it carries intervals, and a Yasno day with
\* an empty or absent interval list is pending.
C10_DaySchedule ==
    (pc = "extracted") =>
        /\ AllWellFormed(github_schedules)
        /\ AllWellFormed(yasno_schedules)
        /\ yasno_data /= NoneValue => YasnoSpecialDays(yasno_data, yasno_schedules)

C10_Witness ==
    /\ pc = "extracted"
    /\ yasno_data /= NoneValue
    /\ HasRecord(yasno_schedules, "GPV12.1", "2025-01-15")
    /\ HasRecord(yasno_schedules, "GPV12.1", "2025-01-16")
    /\ "status" \in DOMAIN yasno_data["12.1"].today
    /\ "slots" \in DOMAIN yasno_data["12.1"].today
    /\ yasno_data["12.1"].today.status = "EmergencyShutdowns"
    /\ yasno_data["12.1"].today.slots /= << >>
    /\ yasno_schedules["GPV12.1"]["2025-01-15"].status = "emergency"
    /\ yasno_schedules["GPV12.1"]["2025-01-16"].status = "normal"
    /\ AllWellFormed(yasno_schedules)

----------------------------------------------------------------------------
(* The reconciler *)

\* the dates considered for a group: the two earliest known to either provider
ConsideredDates(group) ==
    LET all == DOMAIN Get(github_schedules, group, EmptyDict)
                \cup DOMAIN Get(yasno_schedules, group, EmptyDict)
    IN  {d \in all : Cardinality({o \in all : YmdRank(o) < YmdRank(d)}) < 2}

RECURSIVE Flatten(_)
Flatten(lists) == IF lists = << >> THEN << >> ELSE Head(lists) \o Flatten(Tail(lists))

\* the display units the message holds for a group and a date, in its order
UnitsFor(group, date_str) ==
    IF message = NoneValue THEN << >>
    ELSE LET mine == SelectSeq(message.groups, LAMBDA g : g.header = RemoveGPV(group))
         IN  IF mine = << >> THEN << >>
             ELSE SelectSeq(Flatten(mine[1].days), LAMBDA u : u.header.date = date_str)

\* both providers have a normal record with slots, and the slots agree at every index
MergeCase(group, d) ==
    /\ HasRecord(github_schedules, group, d)
    /\ HasRecord(yasno_schedules, group, d)
    /\ github_schedules[group][d].status = "normal"
    /\ yasno_schedules[group][d].status = "normal"
    /\ github_schedules[group][d].slots /= Null
    /\ yasno_schedules[group][d].slots /= Null
    /\ Len(github_schedules[group][d].slots) = Len(yasno_schedules[group][d].slots)
    /\ \A i \in 1..Len(github_schedules[group][d].slots) :
          github_schedules[group][d].slots[i] = yasno_schedules[group][d].slots[i]

\* the unit shows the record: its periods, or the fixed line of its status
BuiltFrom(unit, rec) ==
    IF rec.status = "normal"
    THEN unit.special = "none" /\ ReExpandsTo(unit.lines, rec.slots)
    ELSE unit.special = rec.status /\ unit.lines = << >>

\* C3: where both providers have a normal record for a considered date and the
\* two slot arrays agree at every index, the message holds exactly one display
\* unit for that date, citing both provider names and built from the periods
\* of that array.
C3_Merged ==
    (pc = "formatted") =>
        \A group \in Range(Groups) : \A d \in ConsideredDates(group) :
            MergeCase(group, d) =>
                LET units == UnitsFor(group, d)
                IN  /\ Len(units) = 1
                    /\ units[1].header.sources = <<github_name, yasno_name>>
                    /\ BuiltFrom(units[1], github_schedules[group][d])
                    /\ BuiltFrom(units[1], yasno_schedules[group][d])

C3_Witness ==
    /\ pc = "formatted"
    /\ MergeCase("GPV12.1", "2025-01-15")
    /\ \A i \in 1..NumSlots : github_schedules["GPV12.1"]["2025-01-15"].slots[i]
    /\ Len(UnitsFor("GPV12.1", "2025-01-15")) = 1
    /\ UnitsFor("GPV12.1", "2025-01-15")[1].header.sources = <<github_name, yasno_name>>

\* C4: where the merge condition does not hold for a considered date, the
\* message holds one display unit per provider that has a record for that date,
\* the GitHub-style provider's first, each citing only its own provider name
\* and built from its own status and slots, and nothing for a provider without
\* a record; two records without slots give two units.
C4_Separate ==
    (pc = "formatted") =>
        \A group \in Range(Groups) : \A d \in ConsideredDates(group) :
            ~MergeCase(group, d) =>
                LET units == UnitsFor(group, d)
                    g == HasRecord(github_schedules, group, d)
                    y == HasRecord(yasno_schedules, group, d)
                IN  /\ Len(units) = (IF g THEN 1 ELSE 0) + (IF y THEN 1 ELSE 0)
                    /\ g => /\ units[1].header.sources = <<github_name>>
                            /\ BuiltFrom(units[1], github_schedules[group][d])
                    /\ y => /\ units[Len(units)].header.sources = <<yasno_name>>
                            /\ BuiltFrom(units[Len(units)], yasno_schedules[group][d])

C4_Witness ==
    /\ pc = "formatted"
    /\ HasRecord(github_schedules, "GPV12.1", "2025-01-15")
    /\ HasRecord(yasno_schedules, "GPV12.1", "2025-01-15")
    /\ github_schedules["GPV12.1"]["2025-01-15"].status = "normal"
    /\ yasno_schedules["GPV12.1"]["2025-01-15"].status = "normal"
    /\ Cardinality({i \in 1..NumSlots :
            github_schedules["GPV12.1"]["2025-01-15"].slots[i]
                /= yasno_schedules["GPV12.1"]["2025-01-15"].slots[i]}) = 1
    /\ Len(UnitsFor("GPV12.1", "2025-01-15")) = 2
    /\ HasRecord(github_schedules, "GPV12.1", "2025-01-16")
    /\ HasRecord(yasno_schedules, "GPV12.1", "2025-01-16")
    /\ github_schedules["GPV12.1"]["2025-01-16"].status = "pending"
    /\ yasno_schedules["GPV12.1"]["2025-01-16"].status = "emergency"
    /\ Len(UnitsFor("GPV12.1", "2025-01-16")) = 2

----------------------------------------------------------------------------
(* The change detector and the runs of main *)

\* the same groups, the same dates, and the same status and slots in every record
SameRecords(a, b) ==
    /\ DOMAIN a = DOMAIN b
    /\ \A group \in DOMAIN a :
          /\ DOMAIN a[group] = DOMAIN b[group]
          /\ \A d \in DOMAIN a[group] :
                /\ a[group][d].status = b[group][d].status
                /\ a[group][d].slots = b[group][d].slots

\* this run's snapshots reduce to what the run that wrote the cache file reduced
\* its snapshots to (with no cache file: they hold no group at all)
SameAsCached ==
    /\ SameRecords(github_schedules, sent_schedules[1])
    /\ SameRecords(yasno_schedules, sent_schedules[2])

HoldsRecord(schedules) == \E group \in DOMAIN schedules : DOMAIN schedules[group] /= {}

\* C5: schedules_changed is false exactly when the new snapshot and the
\* snapshot behind the cache agree in groups, dates, status and slots, whatever
\* their date objects; with no cache file a snapshot that holds a record gives
\* true.
C5_ChangeDetector ==
    (pc \in {"changed", "no_change"}) =>
        /\ (pc = "no_change") <=> SameAsCached
        /\ (cache_file = << >> /\ (HoldsRecord(github_schedules) \/ HoldsRecord(yasno_schedules)))
              => pc = "changed"

C5_Witness ==
    /\ pc = "no_change"
    /\ cache_file /= << >>
    /\ HasRecord(github_schedules, "GPV12.1", "2025-01-15")
    /\ HasRecord(sent_schedules[1], "GPV12.1", "2025-01-15")
    /\ github_schedules["GPV12.1"]["2025-01-15"].date
          /= sent_schedules[1]["GPV12.1"]["2025-01-15"].date

\* a message was sent in this run and the cache file is not yet rewritten
JustSent == pc \in {"sent", "managed"}

\* C6: a run sends a message only if its reduced snapshot differs from the
\* cache persisted at its start; a run that follows a run whose send succeeded,
\* on the same payloads, ends without a change detected, sends nothing and
\* leaves the cache file and the stored message ids as they were.
C6_SendOnlyOnChange ==
    /\ [](JustSent => ~SameAsCached)
    /\ [](repeat => pc \in {"fetched", "extracted", "no_change"})
    /\ [][repeat' => (cache_file' = cache_file /\ ids_file' = ids_file /\ next_id' = next_id)]_vars

C6_Witness ==
    /\ repeat
    /\ pc = "no_change"
    /\ cache_file /= << >>
    /\ ids_file /= << >>
    /\ HoldsRecord(github_schedules)
    /\ HoldsRecord(yasno_schedules)

----------------------------------------------------------------------------
(* A run with a provider missing *)

GithubAbsent == github_data = NoneValue
YasnoAbsent == yasno_data = NoneValue

\* the snapshot holds a record for a configured group
SuppliesRecord(schedules) ==
    \E group \in Range(Groups) :
        group \in DOMAIN schedules /\ DOMAIN schedules[group] /= {}

\* every display unit of the message, in its order
AllUnits ==
    IF message = NoneValue THEN << >>
    ELSE Flatten([g \in 1..Len(message.groups) |-> Flatten(message.groups[g].days)])

\* the positions of a run after its extraction, after its comparison found a
\* change, and after its formatting
PastExtraction ==
    {"extracted", "no_change", "changed", "no_message", "formatted", "sent", "send_failed",
     "managed", "saved"}
PastChange == {"no_message", "formatted", "sent", "send_failed", "managed", "saved"}

\* a run with only `name`'s provider: `mine` is its snapshot, `other` the snapshot
\* of the absent provider
RunsOn(name, mine, other) ==
    /\ pc /= "no_data"
    /\ (pc \in PastExtraction /\ SuppliesRecord(mine)) =>
          /\ other = EmptyDict
          /\ pc \in PastChange =>
                /\ pc /= "no_message"
                /\ message /= NoneValue
                /\ AllUnits /= << >>
                /\ \A k \in 1..Len(AllUnits) : AllUnits[k].header.sources = <<name>>

\* C11: with one provider's payload absent and a record from the other for a
\* configured group, the run goes past the fetch stage, the absent provider's
\* snapshot is empty, and a detected change gives a message with at least one
\* display unit, each citing the available provider alone; with both payloads
\* absent the run ends at the fetch stage: nothing extracted, compared or
\* formatted, and the cache file, the stored ids and the channel as they were.
C11_UpstreamUnavailable ==
    /\ []((GithubAbsent /\ ~YasnoAbsent) => RunsOn(yasno_name, yasno_schedules, github_schedules))
    /\ []((YasnoAbsent /\ ~GithubAbsent) => RunsOn(github_name, github_schedules, yasno_schedules))
    /\ []((GithubAbsent /\ YasnoAbsent /\ pc /= "never_run") => (pc = "no_data" /\ FreshRun))
    /\ [][(github_data' = NoneValue /\ yasno_data' = NoneValue) =>
            (cache_file' = cache_file /\ ids_file' = ids_file /\ next_id' = next_id)]_vars

C11_Witness ==
    /\ GithubAbsent
    /\ pc = "formatted"
    /\ cache_file /= << >>
    /\ SuppliesRecord(yasno_schedules)
    /\ Len(AllUnits) = 1
    /\ AllUnits[1].header.sources = <<yasno_name>>
    /\ AllUnits[1].special = "emergency"

----------------------------------------------------------------------------
(* The hour codes of a GitHub day *)

\* the code the day gives for hour h, "yes" when it gives none
CodeOf(day, h) == IF ToString(h) \in DOMAIN day THEN day[ToString(h)] ELSE "yes"

\* the two slots of hour h agree with its code
HourAsCoded(s, day, h) ==
    LET code == CodeOf(day, h)
        first_half == At(s, 2 * (h - 1))
        second_half == At(s, 2 * (h - 1) + 1)
    IN  /\ code = "yes" => (first_half /\ second_half)
        /\ code = "no" => (~first_half /\ ~second_half)
        /\ code = "first" => (~first_half /\ second_half)
        /\ code = "second" => (first_half /\ ~second_half)
        /\ code \in {"maybe", "mfirst", "msecond"} => (first_half /\ second_half)

\* hour 1 is "no" and every other hour "yes"
OnlyFirstHourOff(day) ==
    /\ "1" \in DOMAIN day
    /\ day["1"] = "no"
    /\ \A h \in 2..24 : CodeOf(day, h) = "yes"

\* C12: the record of a day classified normal has 48 slots, and the two slots
\* of every hour 1..24 are (on, on) for "yes" or an absent key, (off, off)
\* for "no", (off, on) for "first", (on, off) for "second" and (on, on) for
\* "maybe", "mfirst" and "msecond"; a day with hour 1 "no" and every other
\* hour "yes" compresses to the two periods 00:00-01:00 off of 1.0 hour and
\* 01:00-24:00 on of 23.0 hours.
C12_HourCodes ==
    /\ (pc \in {"returned", "compressed"} /\ day_ret.status = "normal") =>
          /\ Len(day_ret.slots) = 2 * 24
          /\ \A h \in 1..24 : HourAsCoded(day_ret.slots, day_data, h)
    /\ (pc = "returned" /\ OnlyFirstHourOff(day_data)) => day_ret.status = "normal"
    /\ (pc = "compressed" /\ OnlyFirstHourOff(day_data)) =>
          periods = <<[start |-> <<"0", "0", ":", "0", "0">>,
                       end |-> <<"0", "1", ":", "0", "0">>,
                       is_on |-> FALSE,
                       hours |-> 2],
                      [start |-> <<"0", "1", ":", "0", "0">>,
                       end |-> <<"2", "4", ":", "0", "0">>,
                       is_on |-> TRUE,
                       hours |-> 2 * 23]>>

C12_Witness ==
    /\ pc = "compressed"
    /\ DOMAIN day_data = {ToString(h) : h \in 1..24}
    /\ OnlyFirstHourOff(day_data)
    /\ Len(periods) = 2

----------------------------------------------------------------------------
(* The cache file and the delivery of the message *)

\* the cache file holds the reduced snapshots of the last run whose send
\* returned an id; no file before any such run
CacheIsLastDelivered ==
    IF delivered = Null THEN cache_file = << >>
    ELSE /\ cache_file /= << >>
         /\ SameRecords(cache_file[1].github, delivered[1])
         /\ SameRecords(cache_file[1].yasno, delivered[2])

\* C13: the cache file is written only after the send of the run returned an
\* id, and with that run's reduced snapshot; a run that ends with a failed
\* send, with no message or with no change leaves the cache file and the
\* stored ids as it found them; between runs the cache file holds the reduced
\* snapshot of the last message sent; and a run that follows a failed send
\* on the same payloads detects the change again and comes to the send.
C13_CacheTiedToDelivery ==
    /\ [][cache_file' /= cache_file =>
            /\ pc = "managed"
            /\ message_id /= 0
            /\ cache_file' = <<new_cache>>
            /\ SameRecords(new_cache.github, github_schedules)
            /\ SameRecords(new_cache.yasno, yasno_schedules)]_vars
    /\ [](pc \in {"send_failed", "no_message", "no_change"} =>
            <<cache_file, ids_file>> = start_files)
    /\ [](pc \in Ended => CacheIsLastDelivered)
    /\ [](retry => pc \in {"fetched", "extracted", "changed", "formatted", "sent",
                           "send_failed", "managed", "saved"})

C13_Witness ==
    /\ retry
    /\ pc = "send_failed"
    /\ delivered /= Null
    /\ cache_file /= << >>
    /\ ~SameAsCached

----------------------------------------------------------------------------
(* The stored message ids *)

\* the last n elements of a list, all of it when it is shorter
LastN(list, n) ==
    IF Len(list) <= n THEN list ELSE SubSeq(list, Len(list) - n + 1, Len(list))

\* the ids of the requests of a method, in the order of the requests
RequestedIds(reqs, method) ==
    LET mine == SelectSeq(reqs, LAMBDA r : r.method = method)
    IN  [k \in 1..Len(mine) |-> mine[k].message_id]

\* a step of manage_messages
ManageStep == pc = "sent" /\ pc' = "managed"

\* C14: for max_messages >= 1 and a stored list L, manage_messages(new_id)
\* saves the last max_messages elements of L followed by new_id: the saved
\* list has at most max_messages ids, is a suffix of that list in its order
\* and ends with new_id; deletion is requested for the dropped ids, each
\* once, oldest first, and for no other id; the saved list is the same
\* whatever the pin and the deletions answer; so the stored list never
\* exceeds max_messages after a call.
C14_Retention ==
    /\ [][ManageStep =>
            LET arrived == Append(ids_file, message_id)
                saved == ids_file'
            IN  /\ saved = LastN(arrived, max_messages)
                /\ Len(saved) <= max_messages
                /\ saved[Len(saved)] = message_id
                /\ RequestedIds(requests', "deleteMessage")
                      = SubSeq(arrived, 1, Len(arrived) - Len(saved))
                /\ RequestedIds(requests', "pinChatMessage") = <<message_id>>]_vars
    /\ [](pc = "managed" => (Len(ids_file) >= 1 /\ Len(ids_file) <= max_messages))

C14_Witness ==
    /\ pc = "managed"
    /\ max_messages = 2
    /\ Len(ids_file) = 2
    /\ Len(requests) = 4
    /\ ~requests[1].ok
    /\ ~requests[2].ok
    /\ requests[3].ok
    /\ requests[2].message_id /= requests[3].message_id

====
